---- MODULE Spec2Model ----
(***************************************************************************)
(* Model of the NBT binary tag decoder of ferrumc                           *)
(* (src/lib/adapters/nbt/src/de/mod.rs).                                    *)
(*                                                                          *)
(* The recursive descent of NbtParser::parse_payload is unfolded into a     *)
(* machine with an explicit call stack: one frame per active List or        *)
(* Compound arm (and one for the pending return of parse).  A step runs     *)
(* the code between two recursive calls.  Bytes are 0..255, a buffer is a   *)
(* sequence of bytes, the cursor `pos` counts the bytes consumed.           *)
(*                                                                          *)
(* Machine words:                                                           *)
(*   - i8/i16/i32 values are the integers themselves;                       *)
(*   - u32 and u64/i64 values are tuples of 16-bit limbs, most significant  *)
(*     first (an i64 has a signed first limb);                              *)
(*   - a usize is a record [c, n] standing for c * 2^64 + n with n small:   *)
(*     it is in range when (c = 0 /\ n >= 0) or (c = 1 /\ n < 0).           *)
(* The target is a 64-bit host; byte order, overflow checking and the       *)
(* address of the buffer are inputs of a run.                               *)
(***************************************************************************)
EXTENDS Integers, Sequences, FiniteSets, TLC

VARIABLES host, build, parser, input, rd, gate, other, login

vars == <<host, build, parser, input, rd, gate, other, login>>

(***************************************************************************)
(* Bounds of the model.                                                     *)
(***************************************************************************)
\* the nesting limit the specification asks for ("configured maximum")
MaxDepth == 2
\* largest element count of the generated well-formed lists and arrays
MaxCount == 2
\* longest tail appended after a fixed header in the generated buffers
MaxTail == 2
\* longest buffer the cursor reads are exercised on
MaxCurLen == 9

(***************************************************************************)
(* Bytes and machine words.                                                 *)
(***************************************************************************)
Byte == 0..255

Cat(s, t) == s \o t

\* c * 2^64 + n
U(c, n) == [c |-> c, n |-> n]

\* is the exact result w representable as a usize?
InUsize(w) == (w.c = 0 /\ w.n >= 0) \/ (w.c = 1 /\ w.n < 0)

\* w mod 2^64
Wrap(w) == IF w.n >= 0 THEN U(0, w.n) ELSE U(1, w.n)

UAdd(a, b) == U(a.c + b.c, a.n + b.n)

UMul(a, k) == U(a.c * k, a.n * k)

\* a > b on exact values
UGt(a, b) == (a.c > b.c) \/ (a.c = b.c /\ a.n > b.n)

\* `x as usize` for x : i32 (sign extension to 64 bits)
as_usize(x) == IF x >= 0 THEN U(0, x) ELSE U(1, x)

\* `v as i8`, `v as i16` for v : u8, u16
as_i8(v) == IF v >= 128 THEN v - 256 ELSE v

as_i16(v) == IF v >= 32768 THEN v - 65536 ELSE v

\* `v as i32` for v : u32 given as <<hi, lo>>
as_i32(v) == IF v[1] >= 32768 THEN (v[1] - 65536) * 65536 + v[2]
             ELSE v[1] * 65536 + v[2]

\* `v as i64` for v : u64 given as four limbs
as_i64(v) == <<as_i16(v[1]), v[2], v[3], v[4]>>

u16_from_be_bytes(b) == b[1] * 256 + b[2]

\* the bytes taken least significant first
u32_from_le_bytes(b) == <<b[4] * 256 + b[3], b[2] * 256 + b[1]>>

u32_from_be_bytes(b) == <<b[1] * 256 + b[2], b[3] * 256 + b[4]>>

u64_from_be_bytes(b) ==
    <<b[1] * 256 + b[2], b[3] * 256 + b[4], b[5] * 256 + b[6], b[7] * 256 + b[8]>>

Reverse(s) == [i \in 1..Len(s) |-> s[Len(s) + 1 - i]]

\* the i32 / i64 a load instruction of the host yields for the bytes b
i32_from_ne_bytes(b, h) ==
    IF h = "big" THEN as_i32(u32_from_be_bytes(b))
    ELSE as_i32(u32_from_be_bytes(Reverse(b)))

i64_from_ne_bytes(b, h) ==
    IF h = "big" THEN as_i64(u64_from_be_bytes(b))
    ELSE as_i64(u64_from_be_bytes(Reverse(b)))

(***************************************************************************)
(* Results and errors.                                                      *)
(***************************************************************************)
Ok(v, pos) == [ok |-> TRUE, v |-> v, pos |-> pos]

Err(e, pos) == [ok |-> FALSE, err |-> e, pos |-> pos]

\* a panic unwinds out of parse: not a value of Result
Panic(why, pos) == [ok |-> FALSE, panic |-> why, pos |-> pos]

IsPanic(r) == "panic" \in DOMAIN r

CompressedData == [e |-> "CompressedData"]

InvalidRootCompound(t) == [e |-> "InvalidRootCompound", id |-> t]

UnexpectedEndOfData == [e |-> "UnexpectedEndOfData"]

InvalidNBTData == [e |-> "InvalidNBTData"]

(***************************************************************************)
(* Tag values.                                                              *)
(***************************************************************************)
TagEnd == [t |-> "End"]

TagByte(v) == [t |-> "Byte", i |-> v]

TagShort(v) == [t |-> "Short", i |-> v]

TagInt(v) == [t |-> "Int", i |-> v]

TagLong(v) == [t |-> "Long", w |-> v]

TagFloat(bits) == [t |-> "Float", bits |-> bits]

TagDouble(bits) == [t |-> "Double", bits |-> bits]

TagByteArray(v) == [t |-> "ByteArray", bytes |-> v]

TagString(s) == [t |-> "String", s |-> s]

TagList(et, elems) == [t |-> "List", element_type |-> et, elements |-> elems]

TagCompound(tags) == [t |-> "Compound", tags |-> tags]

TagIntArray(a) == [t |-> "IntArray", ints |-> a]

TagLongArray(a) == [t |-> "LongArray", longs |-> a]

\* HashMap::insert: the value of an existing key is replaced
HashMapInsert(tags, name, v) ==
    [x \in (DOMAIN tags) \cup {name} |-> IF x = name THEN v ELSE tags[x]]

EmptyMap == [x \in {} |-> TagEnd]

(***************************************************************************)
(* The cursor: fixed-width reads over (data, pos).                          *)
(***************************************************************************)
Slice(data, from, n) == SubSeq(data, from + 1, from + n)

read_u8(data, pos) ==
    IF pos >= Len(data) THEN Err(UnexpectedEndOfData, pos)
    ELSE Ok(data[pos + 1], pos + 1)

read_i8(data, pos) ==
    LET r == read_u8(data, pos) IN IF r.ok THEN Ok(as_i8(r.v), r.pos) ELSE r

read_u16(data, pos) ==
    IF pos + 2 > Len(data) THEN Err(UnexpectedEndOfData, pos)
    ELSE Ok(u16_from_be_bytes(Slice(data, pos, 2)), pos + 2)

read_i16(data, pos) ==
    LET r == read_u16(data, pos) IN IF r.ok THEN Ok(as_i16(r.v), r.pos) ELSE r

\* the cursor advanced by the width of a u16
read_u32_short_advance(data, pos) ==
    IF pos + 4 > Len(data) THEN Err(UnexpectedEndOfData, pos)
    ELSE Ok(u32_from_be_bytes(Slice(data, pos, 4)), pos + 2)

read_u32(data, pos) ==
    IF pos + 4 > Len(data) THEN Err(UnexpectedEndOfData, pos)
    ELSE Ok(u32_from_be_bytes(Slice(data, pos, 4)), pos + 4)

read_i32(data, pos) ==
    LET r == read_u32(data, pos) IN IF r.ok THEN Ok(as_i32(r.v), r.pos) ELSE r

read_u64(data, pos) ==
    IF pos + 8 > Len(data) THEN Err(UnexpectedEndOfData, pos)
    ELSE Ok(u64_from_be_bytes(Slice(data, pos, 8)), pos + 8)

read_i64(data, pos) ==
    LET r == read_u64(data, pos) IN IF r.ok THEN Ok(as_i64(r.v), r.pos) ELSE r

read_f32(data, pos) == read_u32(data, pos)

read_f64(data, pos) == read_u64(data, pos)

\* the two magic bytes compared in the wrong order
is_compressed_swapped(data) ==
    Len(data) >= 2 /\ data[1] = 139 /\ data[2] = 31

is_compressed(data) ==
    Len(data) >= 2 /\ data[1] = 31 /\ data[2] = 139

\* a short payload reported with the wrong error variant
parse_string_wrong_variant(data, pos) ==
    LET l == read_u16(data, pos) IN
    IF ~l.ok THEN l
    ELSE IF l.pos + l.v > Len(data) THEN Err(InvalidNBTData, l.pos)
    ELSE Ok(Slice(data, l.pos, l.v), l.pos + l.v)

\* str::from_utf8_unchecked performs no check: the view is the raw bytes
parse_string(data, pos) ==
    LET l == read_u16(data, pos) IN
    IF ~l.ok THEN l
    ELSE IF l.pos + l.v > Len(data) THEN Err(UnexpectedEndOfData, l.pos)
    ELSE Ok(Slice(data, l.pos, l.v), l.pos + l.v)

(***************************************************************************)
(* Zero-copy array views.  `len` is a usize; `addr` is the address of the   *)
(* first byte of the buffer modulo 8.                                       *)
(***************************************************************************)
\* size_of::<i32>(), align_of::<i32>(), size_of::<i64>(), align_of::<i64>()
SizeI32 == 4

SizeI64 == 8

\* the exact result w of a usize operation: panics with overflow checks on,
\* wraps without them
Checked(w) == IF InUsize(w) THEN Ok(w, 0)
              ELSE IF build = "debug" THEN Panic("arithmetic overflow", 0)
              ELSE Ok(Wrap(w), 0)

\* `self.pos + n > self.data.len()` followed by `&self.data[self.pos..self.pos + n]`
\* for a usize n: the end of the view, or the error / panic raised on the way
view_end(data, pos, n) ==
    LET e == Checked(UAdd(U(0, pos), n)) IN
    IF ~e.ok THEN Panic(e.panic, pos)
    ELSE IF UGt(e.v, U(0, Len(data))) THEN Err(UnexpectedEndOfData, pos)
    ELSE IF e.v.n < pos THEN Panic("slice index starts after its end", pos)
    ELSE Ok(e.v.n, pos)

read_i32_array(data, addr, pos, len) ==
    LET byte_len == Checked(UMul(len, SizeI32)) IN
    IF ~byte_len.ok THEN Panic(byte_len.panic, pos)
    ELSE LET e == view_end(data, pos, byte_len.v) IN
         IF ~e.ok THEN e
         ELSE IF (addr + pos) % SizeI32 /= 0 THEN Err(InvalidNBTData, pos)
         ELSE Ok([i \in 1..len.n |->
                     i32_from_ne_bytes(Slice(data, pos + SizeI32 * (i - 1), SizeI32), host)],
                 e.v)

read_i64_array(data, addr, pos, len) ==
    LET byte_len == Checked(UMul(len, SizeI64)) IN
    IF ~byte_len.ok THEN Panic(byte_len.panic, pos)
    ELSE LET e == view_end(data, pos, byte_len.v) IN
         IF ~e.ok THEN e
         ELSE IF (addr + pos) % SizeI64 /= 0 THEN Err(InvalidNBTData, pos)
         ELSE Ok([i \in 1..len.n |->
                     i64_from_ne_bytes(Slice(data, pos + SizeI64 * (i - 1), SizeI64), host)],
                 e.v)

\* Vec::with_capacity(len): panics when the capacity in bytes exceeds isize::MAX
with_capacity(len, pos) ==
    IF len.c > 0 THEN Panic("capacity overflow", pos) ELSE Ok(<<>>, pos)

(***************************************************************************)
(* The parser: struct NbtParser { data, pos } plus the call stack.          *)
(*   pc    "parse" | "payload" | "list" | "compound" | "done"               *)
(*   tag   the argument of the pending parse_payload call                   *)
(*   stack one frame per active caller, innermost last                      *)
(*   out   the result of parse once pc = "done"                             *)
(***************************************************************************)
Running == [k |-> "Running"]

NbtParser_new(data, addr) ==
    [data |-> data, addr |-> addr, pos |-> 0, pc |-> "parse", tag |-> 10,
     stack |-> <<>>, out |-> Running]

Top(p) == p.stack[Len(p.stack)]

Pop(p) == SubSeq(p.stack, 1, Len(p.stack) - 1)

\* the cursor put back to the start of the buffer when a read fails
fail_rewinding(p, r) ==
    [p EXCEPT !.pos = 0, !.pc = "done", !.stack = <<>>,
              !.out = IF IsPanic(r) THEN [k |-> "Panic", why |-> r.panic]
                      ELSE [k |-> "Err", err |-> r.err]]

\* `?` on a failed result r: the error (or the panic) leaves every caller
fail(p, r) ==
    [p EXCEPT !.pos = r.pos, !.pc = "done", !.stack = <<>>,
              !.out = IF IsPanic(r) THEN [k |-> "Panic", why |-> r.panic]
                      ELSE [k |-> "Err", err |-> r.err]]

\* the root Compound returned with the cursor moved to the end of the buffer
ret_to_end(p, stack, v, pos) ==
    LET f == stack[Len(stack)] IN
    CASE f.k = "list" ->
           [p EXCEPT !.pos = pos, !.pc = "list",
                     !.stack = [stack EXCEPT ![Len(stack)] =
                                   [f EXCEPT !.elements = Append(@, v)]]]
      [] f.k = "compound" ->
           [p EXCEPT !.pos = pos, !.pc = "compound",
                     !.stack = [stack EXCEPT ![Len(stack)] =
                                   [f EXCEPT !.tags = HashMapInsert(@, f.name, v)]]]
      [] OTHER ->
           [p EXCEPT !.pos = Len(p.data), !.pc = "done", !.stack = <<>>,
                     !.out = [k |-> "Ok", name |-> f.name, tag |-> v]]

\* Ok(v) returned by parse_payload to the caller on top of the stack
ret(p, stack, v, pos) ==
    LET f == stack[Len(stack)] IN
    CASE f.k = "list" ->
           [p EXCEPT !.pos = pos, !.pc = "list",
                     !.stack = [stack EXCEPT ![Len(stack)] =
                                   [f EXCEPT !.elements = Append(@, v)]]]
      [] f.k = "compound" ->
           [p EXCEPT !.pos = pos, !.pc = "compound",
                     !.stack = [stack EXCEPT ![Len(stack)] =
                                   [f EXCEPT !.tags = HashMapInsert(@, f.name, v)]]]
      [] OTHER ->
           [p EXCEPT !.pos = pos, !.pc = "done", !.stack = <<>>,
                     !.out = [k |-> "Ok", name |-> f.name, tag |-> v]]

\* a scalar or view arm: wrap the value read, or propagate the failure
arm(p, r, v) == IF r.ok THEN ret(p, p.stack, v, r.pos) ELSE fail(p, r)

\* the root name read before the root type is checked
parse_name_first(p) ==
    IF is_compressed(p.data) THEN fail(p, Err(CompressedData, p.pos))
    ELSE LET t == read_u8(p.data, p.pos) IN
         IF ~t.ok THEN fail(p, t)
         ELSE LET name == parse_string(p.data, t.pos) IN
              IF ~name.ok THEN fail(p, name)
              ELSE IF t.v /= 10 THEN fail(p, Err(InvalidRootCompound(t.v), name.pos))
              ELSE [p EXCEPT !.pos = name.pos, !.pc = "payload", !.tag = t.v,
                             !.stack = <<[k |-> "parse", name |-> name.v]>>]

parse(p) ==
    IF is_compressed(p.data) THEN fail(p, Err(CompressedData, p.pos))
    ELSE LET t == read_u8(p.data, p.pos) IN
         IF ~t.ok THEN fail(p, t)
         ELSE IF t.v /= 10 THEN fail(p, Err(InvalidRootCompound(t.v), t.pos))
         ELSE LET name == parse_string(p.data, t.pos) IN
              IF ~name.ok THEN fail(p, name)
              ELSE [p EXCEPT !.pos = name.pos, !.pc = "payload", !.tag = t.v,
                             !.stack = <<[k |-> "parse", name |-> name.v]>>]

parse_payload_byte_array(p) ==
    LET l == read_i32(p.data, p.pos) IN
    IF ~l.ok THEN fail(p, l)
    ELSE LET e == view_end(p.data, l.pos, as_usize(l.v)) IN
         IF ~e.ok THEN fail(p, e)
         ELSE ret(p, p.stack, TagByteArray(Slice(p.data, l.pos, e.v - l.pos)), e.v)

parse_payload_list(p) ==
    LET item_type == read_u8(p.data, p.pos) IN
    IF ~item_type.ok THEN fail(p, item_type)
    ELSE LET l == read_i32(p.data, item_type.pos) IN
         IF ~l.ok THEN fail(p, l)
         ELSE LET elements == with_capacity(as_usize(l.v), l.pos) IN
              IF ~elements.ok THEN fail(p, elements)
              ELSE [p EXCEPT !.pos = l.pos, !.pc = "list",
                             !.stack = Append(@, [k |-> "list",
                                                  element_type |-> item_type.v,
                                                  len |-> l.v,
                                                  elements |-> elements.v])]

parse_payload_compound(p) ==
    [p EXCEPT !.pc = "compound",
              !.stack = Append(@, [k |-> "compound", tags |-> EmptyMap, name |-> <<>>])]

parse_payload_int_array(p) ==
    LET l == read_i32(p.data, p.pos) IN
    IF ~l.ok THEN fail(p, l)
    ELSE LET a == read_i32_array(p.data, p.addr, l.pos, as_usize(l.v)) IN
         arm(p, a, IF a.ok THEN TagIntArray(a.v) ELSE TagEnd)

parse_payload_long_array(p) ==
    LET l == read_i32(p.data, p.pos) IN
    IF ~l.ok THEN fail(p, l)
    ELSE LET a == read_i64_array(p.data, p.addr, l.pos, as_usize(l.v)) IN
         arm(p, a, IF a.ok THEN TagLongArray(a.v) ELSE TagEnd)

\* the match of parse_payload up to its first recursive call
parse_payload(p) ==
    CASE p.tag = 0 -> ret(p, p.stack, TagEnd, p.pos)
      [] p.tag = 1 -> LET r == read_i8(p.data, p.pos) IN
                      arm(p, r, IF r.ok THEN TagByte(r.v) ELSE TagEnd)
      [] p.tag = 2 -> LET r == read_i16(p.data, p.pos) IN
                      arm(p, r, IF r.ok THEN TagShort(r.v) ELSE TagEnd)
      [] p.tag = 3 -> LET r == read_i32(p.data, p.pos) IN
                      arm(p, r, IF r.ok THEN TagInt(r.v) ELSE TagEnd)
      [] p.tag = 4 -> LET r == read_i64(p.data, p.pos) IN
                      arm(p, r, IF r.ok THEN TagLong(r.v) ELSE TagEnd)
      [] p.tag = 5 -> LET r == read_f32(p.data, p.pos) IN
                      arm(p, r, IF r.ok THEN TagFloat(r.v) ELSE TagEnd)
      [] p.tag = 6 -> LET r == read_f64(p.data, p.pos) IN
                      arm(p, r, IF r.ok THEN TagDouble(r.v) ELSE TagEnd)
      [] p.tag = 7 -> parse_payload_byte_array(p)
      [] p.tag = 8 -> LET r == parse_string(p.data, p.pos) IN
                      arm(p, r, IF r.ok THEN TagString(r.v) ELSE TagEnd)
      [] p.tag = 9 -> parse_payload_list(p)
      [] p.tag = 10 -> parse_payload_compound(p)
      [] p.tag = 11 -> parse_payload_int_array(p)
      [] p.tag = 12 -> parse_payload_long_array(p)
      [] OTHER -> fail(p, Panic("unreachable: invalid tag type", p.pos))

\* `for _ in 0..=len`
list_loop_inclusive(p) ==
    LET f == Top(p) IN
    IF Len(f.elements) <= f.len
    THEN [p EXCEPT !.pc = "payload", !.tag = f.element_type]
    ELSE ret(p, Pop(p), TagList(f.element_type, f.elements), p.pos)

\* `for _ in 0..len`: the next element, or the list once len elements are in
list_loop(p) ==
    LET f == Top(p) IN
    IF Len(f.elements) < f.len
    THEN [p EXCEPT !.pc = "payload", !.tag = f.element_type]
    ELSE ret(p, Pop(p), TagList(f.element_type, f.elements), p.pos)

\* a failed read at the head of the loop taken for the End of the Compound
compound_loop_end_on_error(p) ==
    LET f == Top(p)
        tag_type == read_u8(p.data, p.pos) IN
    IF ~tag_type.ok THEN ret(p, Pop(p), TagCompound(f.tags), p.pos)
    ELSE IF tag_type.v = 0 THEN ret(p, Pop(p), TagCompound(f.tags), tag_type.pos)
    ELSE LET name == parse_string(p.data, tag_type.pos) IN
         IF ~name.ok THEN fail(p, name)
         ELSE [p EXCEPT !.pos = name.pos, !.pc = "payload", !.tag = tag_type.v,
                        !.stack = [@ EXCEPT ![Len(@)] = [f EXCEPT !.name = name.v]]]

\* one turn of the `loop` of the Compound arm, up to the recursive call
compound_loop(p) ==
    LET f == Top(p)
        tag_type == read_u8(p.data, p.pos) IN
    IF ~tag_type.ok THEN fail(p, tag_type)
    ELSE IF tag_type.v = 0 THEN ret(p, Pop(p), TagCompound(f.tags), tag_type.pos)
    ELSE LET name == parse_string(p.data, tag_type.pos) IN
         IF ~name.ok THEN fail(p, name)
         ELSE [p EXCEPT !.pos = name.pos, !.pc = "payload", !.tag = tag_type.v,
                        !.stack = [@ EXCEPT ![Len(@)] = [f EXCEPT !.name = name.v]]]

\* one step of the machine, and the run to completion
Step(p) ==
    CASE p.pc = "parse" -> parse(p)
      [] p.pc = "payload" -> parse_payload(p)
      [] p.pc = "list" -> list_loop(p)
      [] p.pc = "compound" -> compound_loop(p)
      [] OTHER -> p

RECURSIVE Run(_)
Run(p) == IF p.pc = "done" THEN p ELSE Run(Step(p))

\* parse on a fresh parser over data at address addr
ParseOf(data, addr) == Run(NbtParser_new(data, addr))

(***************************************************************************)
(* The inputs of a run.  Well-formed streams are written from trees by the  *)
(* grammar of the format (type id, name, payload; big-endian integers);     *)
(* an item pairs the payload bytes with the value they stand for.           *)
(***************************************************************************)
RECURSIVE Flat(_)
Flat(ss) == IF ss = <<>> THEN <<>> ELSE Head(ss) \o Flat(Tail(ss))

BE16(n) == <<(n \div 256) % 256, n % 256>>

BE32(x) == BE16((x \div 65536) % 65536) \o BE16(x % 65536)

BE64(w) == BE16(w[1] % 65536) \o BE16(w[2]) \o BE16(w[3]) \o BE16(w[4])

Str(s) == BE16(Len(s)) \o s

Item(pl, val) == [pl |-> pl, val |-> val]

Entry(ty, name, it) == [ty |-> ty, name |-> name, pl |-> it.pl, val |-> it.val]

EntryBytes(e) == <<e.ty>> \o Str(e.name) \o e.pl

\* the mapping a Compound stands for: each name holds its last value
LastWins(ents) ==
    [n \in {ents[i].name : i \in DOMAIN ents} |->
        LET last == CHOOSE i \in DOMAIN ents :
                        /\ ents[i].name = n
                        /\ \A j \in DOMAIN ents : ents[j].name = n => j <= i
        IN ents[last].val]

I_End == Item(<<>>, TagEnd)

I_Byte(x) == Item(<<x % 256>>, TagByte(x))

I_Short(x) == Item(BE16(x % 65536), TagShort(x))

I_Int(x) == Item(BE32(x), TagInt(x))

I_Long(w) == Item(BE64(w), TagLong(w))

I_Float(bits) == Item(BE16(bits[1]) \o BE16(bits[2]), TagFloat(bits))

I_Double(bits) == Item(BE64(bits), TagDouble(bits))

I_ByteArray(bs) == Item(BE32(Len(bs)) \o bs, TagByteArray(bs))

I_String(s) == Item(Str(s), TagString(s))

I_List(et, items) ==
    Item(<<et>> \o BE32(Len(items)) \o Flat([i \in DOMAIN items |-> items[i].pl]),
         TagList(et, [i \in DOMAIN items |-> items[i].val]))

I_Compound(ents) ==
    Item(Flat([i \in DOMAIN ents |-> EntryBytes(ents[i])]) \o <<0>>,
         TagCompound(LastWins(ents)))

I_IntArray(xs) ==
    Item(BE32(Len(xs)) \o Flat([i \in DOMAIN xs |-> BE32(xs[i])]), TagIntArray(xs))

I_LongArray(ws) ==
    Item(BE32(Len(ws)) \o Flat([i \in DOMAIN ws |-> BE64(ws[i])]), TagLongArray(ws))

\* a payload that stands for no value
I_Raw(pl) == Item(pl, TagEnd)

NameA == <<97>>

NameB == <<98>>

NameX == <<120>>

IntVals == <<1, -2, 16909060>>

LongVals == <<(<<0, 0, 0, 42>>), (<<-1, 65535, 65535, 65534>>), (<<258, 772, 1286, 1800>>)>>

\* arrays and End lists of every count up to MaxCount
Counts == 0..MaxCount

Ints(k) == [i \in 1..k |-> IntVals[((i - 1) % Len(IntVals)) + 1]]

Longs(k) == [i \in 1..k |-> LongVals[((i - 1) % Len(LongVals)) + 1]]

ScalarItems ==
    {I_Byte(5), I_Byte(-1), I_Short(-2), I_Int(42), I_Int(-2),
     I_Long(LongVals[2]), I_Float(<<16256, 0>>), I_Double(<<16368, 0, 0, 0>>)}

ViewItems ==
    {I_ByteArray(<<>>), I_ByteArray(<<7, 255>>),
     I_String(<<>>), I_String(<<104, 195, 169>>)}
    \cup {I_IntArray(Ints(k)) : k \in Counts}
    \cup {I_LongArray(Longs(k)) : k \in Counts}

\* compounds and lists nested d levels below the root
RECURSIVE NestC(_)
NestC(d) == IF d = 0 THEN I_Compound(<<Entry(1, NameA, I_Byte(5))>>)
            ELSE I_Compound(<<Entry(10, NameA, NestC(d - 1))>>)

RECURSIVE NestL(_)
NestL(d) == IF d = 0 THEN I_List(3, <<I_Int(42)>>)
            ELSE I_List(9, <<NestL(d - 1)>>)

NestedItems ==
    {I_List(0, [i \in 1..k |-> I_End]) : k \in Counts}
    \cup {I_List(3, [i \in 1..k |-> I_Int(Ints(k)[i])]) : k \in Counts \ {0}}
    \cup {I_List(10, <<I_Compound(<<>>), NestC(0)>>),
          I_List(11, <<I_IntArray(Ints(1))>>),
          I_Compound(<<>>),
          I_Compound(<<Entry(3, NameA, I_Int(42)), Entry(8, NameA, I_String(<<104>>))>>)}
    \cup {NestC(d) : d \in 0..MaxDepth}
    \cup {NestL(d) : d \in 0..MaxDepth}

\* the tag type of a well-formed item
TypeOf(it) ==
    CASE it.val.t = "End" -> 0 [] it.val.t = "Byte" -> 1 [] it.val.t = "Short" -> 2
      [] it.val.t = "Int" -> 3 [] it.val.t = "Long" -> 4 [] it.val.t = "Float" -> 5
      [] it.val.t = "Double" -> 6 [] it.val.t = "ByteArray" -> 7
      [] it.val.t = "String" -> 8 [] it.val.t = "List" -> 9
      [] it.val.t = "Compound" -> 10 [] it.val.t = "IntArray" -> 11
      [] OTHER -> 12

Items == ScalarItems \cup ViewItems \cup NestedItems

\* first entries of the two-entry documents: they shift what follows
FirstEntries == {Entry(3, NameA, I_Int(42)), Entry(1, NameA, I_Byte(5))}

Doc(name, ents) == [name |-> name, ents |-> ents]

Docs ==
    {Doc(<<>>, <<>>), Doc(<<114>>, <<>>), Doc(<<>>, <<Entry(3, NameX, I_Int(42))>>)}
    \cup {Doc(<<>>, <<Entry(TypeOf(it), NameA, it)>>) : it \in Items}
    \cup {Doc(<<>>, <<f, Entry(TypeOf(it), n, it)>>) :
             f \in FirstEntries, n \in {NameA, NameB}, it \in ViewItems \cup ScalarItems}

DocBytes(d) == <<10>> \o Str(d.name) \o I_Compound(d.ents).pl

DocRoot(d) == I_Compound(d.ents).val

(***************************************************************************)
(* Malformed streams: a negative length or count, a type id outside 0..12,  *)
(* bytes that are not UTF-8, a truncated stream, a foreign header.          *)
(***************************************************************************)
\* -1, -2 and -2^24 as big-endian i32
NegCounts == {<<255, 255, 255, 255>>, <<255, 255, 255, 254>>, <<255, 0, 0, 0>>}

BadTags == {13, 255}

BadTexts == {<<255>>, <<195>>, <<195, 40>>, <<104, 128>>}

\* entries put in front of a malformed one, to move it in the buffer
Leads == {<<>>, <<Entry(1, NameB, I_Byte(5))>>}

NegLenDocs ==
    {Doc(<<>>, l \o <<Entry(ty, NameA, I_Raw(c))>>) :
        l \in Leads, ty \in {7, 11, 12}, c \in NegCounts}
    \cup {Doc(<<>>, l \o <<Entry(9, NameA, I_Raw(<<et>> \o c))>>) :
             l \in Leads, et \in {0, 3}, c \in NegCounts}

BadTagDocs ==
    {Doc(<<>>, l \o <<Entry(t, NameA, I_Raw(<<>>))>>) : l \in Leads, t \in BadTags}
    \cup {Doc(<<>>, <<Entry(9, NameA, I_Raw(<<t>> \o BE32(n)))>>) :
             t \in BadTags, n \in Counts \ {0}}

\* an empty list declares any element type
EmptyListDocs ==
    {Doc(<<>>, <<Entry(9, NameA, I_List(t, <<>>))>>) : t \in BadTags \cup {0, 3}}

BadTextDocs ==
    {Doc(<<>>, <<Entry(1, b, I_Byte(5))>>) : b \in BadTexts}
    \cup {Doc(<<>>, <<Entry(8, NameA, I_Raw(Str(b)))>>) : b \in BadTexts}
    \cup {Doc(b, <<>>) : b \in BadTexts}

TailBytes == {0, 139}

RECURSIVE SeqsUpTo(_, _)
SeqsUpTo(S, n) ==
    IF n = 0 THEN {<<>>}
    ELSE LET shorter == SeqsUpTo(S, n - 1) IN
         shorter \cup {Append(t, b) : t \in shorter, b \in S}

Tails == SeqsUpTo(TailBytes, MaxTail)

GzipMagic == <<31, 139>>

\* an input: the buffer handed to the parser and where it comes from
In(kind, data, d) ==
    [kind |-> kind, data |-> data, full |-> DocBytes(d), name |-> d.name,
     root |-> DocRoot(d)]

NoDoc == Doc(<<>>, <<>>)

Inputs ==
    {In("valid", DocBytes(d), d) : d \in Docs}
    \cup UNION {{In("prefix", Slice(DocBytes(d), 0, k), d) :
                    k \in 0..(Len(DocBytes(d)) - 1)} : d \in Docs}
    \cup {In("suffix", DocBytes(d) \o t, d) : d \in Docs, t \in Tails \ {<<>>}}
    \cup {In("neglen", DocBytes(d), d) : d \in NegLenDocs}
    \cup {In("badtag", DocBytes(d), d) : d \in BadTagDocs}
    \cup {In("emptylist", DocBytes(d), d) : d \in EmptyListDocs}
    \cup {In("badtext", DocBytes(d), d) : d \in BadTextDocs}
    \cup {In("gzip", GzipMagic \o t, NoDoc) : t \in Tails}
    \cup {In("gzip", GzipMagic \o DocBytes(d), d) : d \in {Doc(<<>>, <<>>)}}
    \cup {In("root", <<t>> \o tl, NoDoc) : t \in Byte \ {10}, tl \in Tails}

Hosts == {"little", "big"}

Builds == {"debug", "release"}

\* the address of the buffer modulo the largest alignment asked for
Addrs == 0..(SizeI64 - 1)

NoRead == [fn |-> "none"]

\* the parts of the state a specification leaves out
NoGate == [k |-> "none"]

NoParser == [pc |-> "none"]

NoLogin == [pc |-> "none"]

(***************************************************************************)
(* One parse of one buffer.                                                 *)
(***************************************************************************)
Init ==
    /\ input \in Inputs
    /\ host \in Hosts
    /\ build \in Builds
    /\ \E a \in Addrs : parser = NbtParser_new(input.data, a)
    /\ rd = NoRead
    /\ gate = NoGate
    /\ other = NoParser
    /\ login = NoLogin

Do(p) == /\ parser' = p
         /\ UNCHANGED <<host, build, input, rd, gate, other, login>>

Parse == parser.pc = "parse" /\ Do(parse(parser))

PayloadScalar ==
    parser.pc = "payload" /\ parser.tag \in 0..6 /\ Do(parse_payload(parser))

PayloadByteArray ==
    parser.pc = "payload" /\ parser.tag = 7 /\ Do(parse_payload(parser))

PayloadString ==
    parser.pc = "payload" /\ parser.tag = 8 /\ Do(parse_payload(parser))

PayloadList ==
    parser.pc = "payload" /\ parser.tag = 9 /\ Do(parse_payload(parser))

PayloadCompound ==
    parser.pc = "payload" /\ parser.tag = 10 /\ Do(parse_payload(parser))

PayloadIntArray ==
    parser.pc = "payload" /\ parser.tag = 11 /\ Do(parse_payload(parser))

PayloadLongArray ==
    parser.pc = "payload" /\ parser.tag = 12 /\ Do(parse_payload(parser))

PayloadUnknown ==
    parser.pc = "payload" /\ parser.tag \notin 0..12 /\ Do(parse_payload(parser))

ListLoop == parser.pc = "list" /\ Do(list_loop(parser))

CompoundLoop == parser.pc = "compound" /\ Do(compound_loop(parser))

Next ==
    \/ Parse
    \/ PayloadScalar
    \/ PayloadByteArray
    \/ PayloadString
    \/ PayloadList
    \/ PayloadCompound
    \/ PayloadIntArray
    \/ PayloadLongArray
    \/ PayloadUnknown
    \/ ListLoop
    \/ CompoundLoop

Spec == Init /\ [][Next]_vars

\* parse runs on until it returns or panics: no step is left waiting
\* two addresses, one aligned for an array view and one not
PairAddrs == {0, 1}

FairInputs ==
    {i \in Inputs : i.kind \in {"valid", "neglen", "badtag", "emptylist"}
                    /\ Len(i.data) <= 13}

InitFair ==
    /\ input \in FairInputs
    /\ host \in Hosts
    /\ build \in Builds
    /\ \E a \in PairAddrs : parser = NbtParser_new(input.data, a)
    /\ rd = NoRead
    /\ gate = NoGate
    /\ other = NoParser
    /\ login = NoLogin

SpecFair == InitFair /\ [][Next]_vars /\ WF_vars(Next)

Done == parser.pc = "done"

Succeeded == Done /\ parser.out.k = "Ok"

Failed(e) == Done /\ parser.out.k = "Err" /\ parser.out.err = e

Panicked == Done /\ parser.out.k = "Panic"

(***************************************************************************)
(* The cursor alone: fixed-width reads in any order over a short buffer.    *)
(***************************************************************************)
CurBytes == {1, 255}

CursorInputs ==
    {[kind |-> "cursor", data |-> b] : b \in SeqsUpTo(CurBytes, MaxCurLen)}

InitCursor ==
    /\ input \in CursorInputs
    /\ host = "little"
    /\ build = "release"
    /\ parser = NbtParser_new(input.data, 0)
    /\ rd = NoRead
    /\ gate = NoGate
    /\ other = NoParser
    /\ login = NoLogin

\* the call fn() on the parser, with result res
CursorRead(fn, res) ==
    /\ rd' = [fn |-> fn, p |-> parser.pos, res |-> res]
    /\ parser' = [parser EXCEPT !.pos = res.pos]
    /\ UNCHANGED <<host, build, input, gate, other, login>>

ReadU8 == CursorRead("read_u8", read_u8(parser.data, parser.pos))

ReadI8 == CursorRead("read_i8", read_i8(parser.data, parser.pos))

ReadU16 == CursorRead("read_u16", read_u16(parser.data, parser.pos))

ReadI16 == CursorRead("read_i16", read_i16(parser.data, parser.pos))

ReadU32 == CursorRead("read_u32", read_u32(parser.data, parser.pos))

ReadI32 == CursorRead("read_i32", read_i32(parser.data, parser.pos))

ReadU64 == CursorRead("read_u64", read_u64(parser.data, parser.pos))

ReadI64 == CursorRead("read_i64", read_i64(parser.data, parser.pos))

ReadF32 == CursorRead("read_f32", read_f32(parser.data, parser.pos))

ReadF64 == CursorRead("read_f64", read_f64(parser.data, parser.pos))

NextCursor ==
    \/ ReadU8
    \/ ReadI8
    \/ ReadU16
    \/ ReadI16
    \/ ReadU32
    \/ ReadI32
    \/ ReadU64
    \/ ReadI64
    \/ ReadF32
    \/ ReadF64

SpecCursor == InitCursor /\ [][NextCursor]_vars

(***************************************************************************)
(* The decompression gate in front of the parser: the caller passes the     *)
(* buffer through NbtParser::decompress and parses what it returns.         *)
(***************************************************************************)
GateOk(v) == [ok |-> TRUE, v |-> v]

GateErr == [ok |-> FALSE, err |-> [e |-> "Decompression"]]

\* a gzip member starts with a 10-byte header whose third byte is 8
GzipHeaderLen == 10

BadGzipHeader(data) == IF Len(data) < GzipHeaderLen THEN TRUE ELSE data[3] /= 8

\* libflate::gzip::Decoder::new on a stream whose header is bad
gzip_decoder_new(data) == GateErr

decompress(data) ==
    IF ~is_compressed(data) THEN GateOk(data) ELSE gzip_decoder_new(data)

GateInputs ==
    {i \in Inputs : \/ i.kind \in {"valid", "badtag", "gzip"}
                    \/ (i.kind = "prefix" /\ Len(i.data) <= 1)}

InitGate ==
    /\ input \in GateInputs
    /\ host \in Hosts
    /\ build \in Builds
    /\ \E a \in Addrs : parser = [NbtParser_new(input.data, a) EXCEPT !.pc = "wait"]
    /\ rd = NoRead
    /\ gate = [k |-> "pending"]
    /\ other = NoParser
    /\ login = NoLogin

\* decompress(data), then NbtParser::new on the returned Vec, which the
\* allocator places at an address of its choice
Decompress ==
    /\ parser.pc = "wait"
    /\ IF is_compressed(parser.data) THEN BadGzipHeader(parser.data) ELSE TRUE
    /\ LET r == decompress(parser.data) IN
       IF r.ok
       THEN /\ \E a \in Addrs : parser' = NbtParser_new(r.v, a)
            /\ gate' = [k |-> "done", from |-> parser.addr, res |-> r]
       ELSE /\ parser' = [parser EXCEPT !.pc = "off"]
            /\ gate' = [k |-> "failed", from |-> parser.addr, res |-> r]
    /\ UNCHANGED <<host, build, input, rd, other, login>>

NextGate ==
    \/ Decompress
    \/ Next

SpecGate == InitGate /\ [][NextGate]_vars

(***************************************************************************)
(* Two parsers, each over a buffer of its own, stepped in any order: parser  *)
(* is the first one, other the second.                                      *)
(***************************************************************************)
PairInputs ==
    {i \in Inputs : \/ i.kind = "valid" /\ Len(i.data) = 12 /\ i.data[4] = 11
                    \/ i.kind = "valid" /\ Len(i.data) = 9
                    \/ i.kind = "prefix" /\ Len(i.data) = 6 /\ i.data[4] = 10
                    \/ i.kind = "badtag" /\ Len(i.data) <= 8}

InitPair ==
    /\ input \in PairInputs
    /\ host \in Hosts
    /\ build \in Builds
    /\ \E a \in PairAddrs : parser = NbtParser_new(input.data, a)
    /\ \E i \in PairInputs, a \in PairAddrs : other = NbtParser_new(i.data, a)
    /\ rd = NoRead
    /\ gate = NoGate
    /\ login = NoLogin

\* a step of the second parser that works on the cursor of the first
StepOtherSharedCursor ==
    /\ other.pc /= "done"
    /\ other' = Step([other EXCEPT !.pos = parser.pos])
    /\ UNCHANGED <<host, build, parser, input, rd, gate, login>>

StepOther ==
    /\ other.pc /= "done"
    /\ other' = Step(other)
    /\ UNCHANGED <<host, build, parser, input, rd, gate, login>>

StepFirst == parser.pc /= "done" /\ Do(Step(parser))

NextPair == StepFirst \/ StepOther

SpecPair == InitPair /\ [][NextPair]_vars

(***************************************************************************)
(* LoginStart::handle (src/net/packets/incoming/login_start.rs) and one     *)
(* other task that takes the lock of the same connection.                   *)
(*   login.pc      the await the handler is at                              *)
(*   login.lock    the RwLock of the connection: its writer and readers     *)
(*   login.state   Connection::state                                        *)
(*   login.sent    what the socket has taken, in order                      *)
(*   login.world   the components stored for the entity                     *)
(*   login.peer    the other task: "idle" | "reading" | "left"              *)
(***************************************************************************)
\* largest keep-alive payload drawn by random()
MaxKeepAlive == 1

Space == 32

Usernames == {<<>>, <<97>>, <<Space, 97, Space>>}

RECURSIVE TrimStart(_)
TrimStart(u) == IF u /= <<>> /\ Head(u) = Space THEN TrimStart(Tail(u)) ELSE u

\* String::trim
Trim(u) == Reverse(TrimStart(Reverse(TrimStart(u))))

Whole(pkt) == [pkt |-> pkt, whole |-> TRUE]

Torn(pkt) == [pkt |-> pkt, whole |-> FALSE]

FreeLock == [writer |-> "none", readers |-> {}]

\* `?` in handle: the error is returned and the guard dropped
handle_fail(l) ==
    [l EXCEPT !.pc = "done", !.result = "Err",
              !.lock = [writer |-> IF @.writer = "handler" THEN "none" ELSE @.writer,
                        readers |-> @.readers \ {"handler"}]]

\* the error of a failed write dropped instead of returned
write_packet_ignoring_error(l, pkt, ok, torn, next) ==
    IF ok THEN [l EXCEPT !.sent = Append(@, Whole(pkt)), !.pc = next]
    ELSE [l EXCEPT !.pc = next]

\* encode and write one packet: `ok` says whether both succeed, `torn`
\* whether a failed write_all had already passed part of the packet on
write_packet(l, pkt, ok, torn, next) ==
    IF ok THEN [l EXCEPT !.sent = Append(@, Whole(pkt)), !.pc = next]
    ELSE handle_fail([l EXCEPT !.sent = IF torn THEN Append(@, Torn(pkt)) ELSE @])

\* conn.read() taken in place of conn.write()
lock_shared(l) ==
    IF l.lock.writer = "none"
    THEN [l EXCEPT !.lock.readers = @ \cup {"handler"}, !.pc = "send_login_success"]
    ELSE l

\* conn.write().await: granted once nobody holds the lock
lock_write(l) ==
    IF l.lock.writer = "none" /\ l.lock.readers = {}
    THEN [l EXCEPT !.lock.writer = "handler", !.pc = "send_login_success"]
    ELSE l

\* the four inserts of update_world_state
update_world_state(l) ==
    [l EXCEPT !.world = @ \cup {[c |-> "Position"], [c |-> "Rotation"],
                                [c |-> "KeepAlive", data |-> l.keep_alive],
                                [c |-> "Player", username |-> l.username]},
              !.pc = "set_play"]

InitLogin ==
    /\ \E u \in Usernames, known \in BOOLEAN :
          login = [pc |-> "start", username |-> u, known |-> known, result |-> "none",
                   lock |-> FreeLock, state |-> "Login", sent |-> <<>>, world |-> {},
                   keep_alive |-> 0, peer |-> "idle"]
    /\ input = [kind |-> "login", data |-> <<>>]
    /\ host = "little"
    /\ build = "release"
    /\ parser = NoParser
    /\ rd = NoRead
    /\ gate = NoGate
    /\ other = NoParser

DoLogin(l) == /\ login' = l
              /\ UNCHANGED <<host, build, parser, input, rd, gate, other>>

\* trim the name, look the connection up
GetConnection ==
    /\ login.pc = "start"
    /\ DoLogin(IF login.known
               THEN [login EXCEPT !.username = Trim(@), !.pc = "lock"]
               ELSE handle_fail([login EXCEPT !.username = Trim(@)]))

LockConnection ==
    /\ login.pc = "lock"
    /\ lock_write(login) /= login
    /\ DoLogin(lock_write(login))

SendLoginSuccess ==
    /\ login.pc = "send_login_success"
    /\ \E ok \in BOOLEAN, torn \in BOOLEAN :
          DoLogin(write_packet(login, "LoginSuccess", ok, torn, "send_login_play"))

SendLoginPlay ==
    /\ login.pc = "send_login_play"
    /\ \E ok \in BOOLEAN, torn \in BOOLEAN :
          DoLogin(write_packet(login, "LoginPlay", ok, torn, "send_spawn_position"))

SendSpawnPosition ==
    /\ login.pc = "send_spawn_position"
    /\ \E ok \in BOOLEAN, torn \in BOOLEAN :
          DoLogin(write_packet(login, "DefaultSpawnPosition", ok, torn, "send_keep_alive"))

SendKeepAlive ==
    /\ login.pc = "send_keep_alive"
    /\ \E data \in 0..MaxKeepAlive, ok \in BOOLEAN, torn \in BOOLEAN :
          DoLogin(write_packet([login EXCEPT !.keep_alive = data], "KeepAlive", ok, torn,
                               "update_world_state"))

UpdateWorldState ==
    /\ login.pc = "update_world_state"
    /\ DoLogin(update_world_state(login))

SetPlay ==
    /\ login.pc = "set_play"
    /\ DoLogin([login EXCEPT !.state = "Play", !.pc = "return"])

\* Ok(()) and the drop of the guard
Return ==
    /\ login.pc = "return"
    /\ DoLogin([login EXCEPT !.pc = "done", !.result = "Ok",
                             !.lock = [writer |-> "none",
                                       readers |-> @.readers \ {"handler"}]])

\* the other task takes a read lock of the connection
PeerLock ==
    /\ login.peer = "idle"
    /\ login.lock.writer = "none"
    /\ DoLogin([login EXCEPT !.peer = "reading", !.lock.readers = @ \cup {"peer"}])

PeerUnlock ==
    /\ login.peer = "reading"
    /\ DoLogin([login EXCEPT !.peer = "left", !.lock.readers = @ \ {"peer"}])

NextLogin ==
    \/ GetConnection
    \/ LockConnection
    \/ SendLoginSuccess
    \/ SendLoginPlay
    \/ SendSpawnPosition
    \/ SendKeepAlive
    \/ UpdateWorldState
    \/ SetPlay
    \/ Return
    \/ PeerLock
    \/ PeerUnlock

SpecLogin == InitLogin /\ [][NextLogin]_vars

(***************************************************************************)
(* Vocabulary of the properties.                                            *)
(***************************************************************************)
HasMagic(data) == Len(data) >= 2 /\ SubSeq(data, 1, 2) = GzipMagic

\* the number of bytes a fixed-width read consumes
Width(fn) ==
    CASE fn \in {"read_u8", "read_i8"} -> 1
      [] fn \in {"read_u16", "read_i16"} -> 2
      [] fn \in {"read_u32", "read_i32", "read_f32"} -> 4
      [] OTHER -> 8

Cont(b) == b \in 128..191

\* well-formed UTF-8 from index i on (what str::from_utf8 accepts)
RECURSIVE Utf8From(_, _)
Utf8From(s, i) ==
    IF i > Len(s) THEN TRUE
    ELSE LET b == s[i] IN
         CASE b < 128 -> Utf8From(s, i + 1)
           [] b \in 194..223 ->
                i + 1 <= Len(s) /\ Cont(s[i + 1]) /\ Utf8From(s, i + 2)
           [] b \in 224..239 ->
                /\ i + 2 <= Len(s)
                /\ s[i + 1] \in (IF b = 224 THEN 160..191
                                 ELSE IF b = 237 THEN 128..159 ELSE 128..191)
                /\ Cont(s[i + 2])
                /\ Utf8From(s, i + 3)
           [] b \in 240..244 ->
                /\ i + 3 <= Len(s)
                /\ s[i + 1] \in (IF b = 240 THEN 144..191
                                 ELSE IF b = 244 THEN 128..143 ELSE 128..191)
                /\ Cont(s[i + 2])
                /\ Cont(s[i + 3])
                /\ Utf8From(s, i + 4)
           [] OTHER -> FALSE

IsValidUtf8(s) == Utf8From(s, 1)

\* every text a decoded value exposes: String payloads and Compound names
RECURSIVE TextsOf(_)
TextsOf(v) ==
    CASE v.t = "String" -> {v.s}
      [] v.t = "List" -> UNION {TextsOf(v.elements[i]) : i \in DOMAIN v.elements}
      [] v.t = "Compound" ->
           (DOMAIN v.tags) \cup UNION {TextsOf(v.tags[n]) : n \in DOMAIN v.tags}
      [] OTHER -> {}

\* active parse_payload calls on a List or a Compound
Depth == Cardinality({i \in DOMAIN parser.stack : parser.stack[i].k /= "parse"})

(***************************************************************************)
(* Properties.                                                              *)
(***************************************************************************)

\* C1: a buffer that starts with 0x1F 0x8B makes parse return CompressedData,
\* whatever follows, and the cursor is still at 0.
C1_CompressedRejected ==
    (Done /\ HasMagic(parser.data)) =>
        (Failed(CompressedData) /\ parser.pos = 0)

C1_Witness ==
    /\ Done
    /\ input.kind = "gzip"
    /\ Len(parser.data) > 2
    /\ Failed(CompressedData)

\* C2: a non-empty buffer without the gzip magic whose first byte t is not 10
\* makes parse return InvalidRootCompound(t) after reading that one byte only.
C2_InvalidRoot ==
    (Done /\ Len(parser.data) >= 1 /\ ~HasMagic(parser.data) /\ parser.data[1] /= 10) =>
        (Failed(InvalidRootCompound(parser.data[1])) /\ parser.pos = 1)

C2_Witness ==
    /\ Done
    /\ input.kind = "root"
    /\ Len(parser.data) > 1
    /\ parser.data[1] = 255
    /\ Failed(InvalidRootCompound(255))

\* C3: parse of a well-formed Compound stream succeeds and returns the root
\* name and a Compound holding, for each distinct name, the value of its last
\* occurrence (IntArray and LongArray entries included).
C3_LastWriteWins ==
    (Done /\ input.kind = "valid") =>
        /\ Succeeded
        /\ parser.out.name = input.name
        /\ parser.out.tag.t = "Compound"
        /\ DOMAIN parser.out.tag.tags = DOMAIN input.root.tags
        /\ \A n \in DOMAIN input.root.tags : parser.out.tag.tags[n] = input.root.tags[n]

\* C4: when parse decodes the whole of a stream b, parse of every proper prefix
\* of b returns UnexpectedEndOfData.
C4_TruncationIsEndOfData ==
    (/\ Done
     /\ input.kind = "prefix"
     /\ LET whole == ParseOf(input.full, parser.addr) IN
        whole.out.k = "Ok" /\ whole.pos = Len(input.full)) =>
        Failed(UnexpectedEndOfData)

C4_Witness ==
    /\ Done
    /\ input.kind = "prefix"
    /\ Len(parser.data) > 12
    /\ LET whole == ParseOf(input.full, parser.addr) IN
       whole.out.k = "Ok" /\ whole.pos = Len(input.full)
    /\ Failed(UnexpectedEndOfData)

\* C5: a negative length or count of a ByteArray, List, IntArray or LongArray
\* makes parse return the malformed-data error (InvalidNBTData).
C5_NegativeLengthIsMalformed ==
    (Done /\ input.kind = "neglen") => Failed(InvalidNBTData)

\* C6: a type id outside 0..12 that reaches parse_payload makes parse return
\* the malformed-data error (InvalidNBTData), never a panic.
C6_UnknownTagIsMalformed ==
    (Done /\ input.kind = "badtag") => (Failed(InvalidNBTData) /\ ~Panicked)

\* C7: the nesting of List and Compound payloads being decoded never exceeds
\* the configured maximum.
C7_DepthBounded == Depth <= MaxDepth

\* C8: parse never returns a name or a String built from bytes that are not
\* UTF-8; such a stream makes it return the malformed-data error.
C8_InvalidTextRejected ==
    /\ Succeeded =>
          \A s \in {parser.out.name} \cup TextsOf(parser.out.tag) : IsValidUtf8(s)
    /\ (Done /\ input.kind = "badtext") => Failed(InvalidNBTData)

\* C9: a fixed-width read of width w at position p over n bytes succeeds and
\* moves the cursor to p + w when p + w <= n, and otherwise returns
\* UnexpectedEndOfData and leaves the cursor at p.
C9_FixedWidthRead ==
    rd.fn /= "none" =>
        IF rd.p + Width(rd.fn) <= Len(parser.data)
        THEN rd.res.ok /\ parser.pos = rd.p + Width(rd.fn)
        ELSE /\ ~rd.res.ok
             /\ ~IsPanic(rd.res)
             /\ rd.res.err = UnexpectedEndOfData
             /\ parser.pos = rd.p

C9_Witness ==
    /\ rd.fn = "read_u32"
    /\ rd.p > 0
    /\ rd.p < Len(parser.data)
    /\ rd.p + 4 > Len(parser.data)
    /\ ~rd.res.ok
    /\ parser.pos = rd.p

\* C10: every element of a decoded IntArray or LongArray is the big-endian
\* integer of its 4 or 8 payload bytes, whatever the byte order of the host.
C10_ArrayElementsBigEndian ==
    (Succeeded /\ input.kind = "valid") =>
        \A n \in DOMAIN parser.out.tag.tags :
            LET got == parser.out.tag.tags[n]
                want == input.root.tags[n] IN
            /\ got.t = "IntArray" =>
                  \A i \in 1..Len(want.ints) : got.ints[i] = want.ints[i]
            /\ got.t = "LongArray" =>
                  \A i \in 1..Len(want.longs) : got.longs[i] = want.longs[i]


\* the two's-complement integer of at most three big-endian bytes after a
\* signed leading byte
SignedBE(b) ==
    LET top == IF b[1] >= 128 THEN b[1] - 256 ELSE b[1] IN
    CASE Len(b) = 1 -> top
      [] Len(b) = 2 -> top * 256 + b[2]
      [] OTHER -> top * 16777216 + b[2] * 65536 + b[3] * 256 + b[4]

\* the value the format gives a Byte, Short, Int or Long payload
ScalarOf(ty, b) ==
    CASE ty = 1 -> TagByte(SignedBE(b))
      [] ty = 2 -> TagShort(SignedBE(b))
      [] ty = 3 -> TagInt(SignedBE(b))
      [] OTHER -> TagLong(<<SignedBE(SubSeq(b, 1, 2)), b[3] * 256 + b[4],
                            b[5] * 256 + b[6], b[7] * 256 + b[8]>>)

ScalarWidth(ty) == CASE ty = 1 -> 1 [] ty = 2 -> 2 [] ty = 3 -> 4 [] OTHER -> 8

\* the stream is a root Compound with an empty name and one entry of type ty
\* with a one-byte name and a payload of w bytes
OneEntry(data, ty, w) ==
    /\ Len(data) = 8 + w
    /\ SubSeq(data, 1, 3) = <<10, 0, 0>>
    /\ data[4] = ty
    /\ SubSeq(data, 5, 6) = <<0, 1>>
    /\ data[8 + w] = 0

\* C11: Byte, Short, Int and Long payloads decode to the big-endian
\* two's-complement value of their bytes; 0A 00 00 03 00 01 'x' 00 00 00 2A 00
\* decodes to ("", {"x": Int 42}).
C11_ScalarsBigEndian ==
    /\ \A ty \in 1..4 :
          (Done /\ OneEntry(parser.data, ty, ScalarWidth(ty))) =>
              /\ Succeeded
              /\ parser.out.name = <<>>
              /\ parser.out.tag =
                    TagCompound(<<parser.data[7]>> :>
                        ScalarOf(ty, SubSeq(parser.data, 8, 7 + ScalarWidth(ty))))
    /\ (Done /\ parser.data = <<10, 0, 0, 3, 0, 1, 120, 0, 0, 0, 42, 0>>) =>
          (Succeeded /\ parser.out.tag = TagCompound(NameX :> TagInt(42)))

C11_Witness ==
    /\ Succeeded
    /\ parser.data = <<10, 0, 0, 3, 0, 1, 97, 255, 255, 255, 254, 0>>
    /\ parser.out.tag.tags[NameA] = TagInt(-2)


\* C12: on an input without the gzip magic decompress succeeds and returns
\* the same bytes, and parse on what it returns has the outcome of parse on
\* the input.
C12_DecompressIsIdentity ==
    (gate.k \in {"done", "failed"} /\ ~HasMagic(input.data)) =>
        /\ gate.res.ok
        /\ gate.res.v = input.data
        /\ parser.data = input.data
        /\ Done => parser.out = ParseOf(input.data, gate.from).out


LoginOrder == <<"LoginSuccess", "LoginPlay", "DefaultSpawnPosition", "KeepAlive">>

\* sent is a beginning of the login sequence; only a failed write leaves a
\* packet torn, and it is the last thing sent
SentInOrder(l) ==
    /\ Len(l.sent) <= Len(LoginOrder)
    /\ \A i \in DOMAIN l.sent :
          /\ l.sent[i].pkt = LoginOrder[i]
          /\ ~l.sent[i].whole => (i = Len(l.sent) /\ l.result = "Err")

\* C13: the packets go out as LoginSuccess, LoginPlay, DefaultSpawnPosition,
\* keep-alive, in that order, and nothing is sent after a failed write.
C13_LoginPacketOrder ==
    /\ [](login.pc /= "none" => SentInOrder(login))
    /\ [][login.result = "Err" => login'.sent = login.sent]_vars
    /\ [][(login'.result = "Err" /\ login.result /= "Err") =>
             \A i \in DOMAIN login'.sent :
                 i <= Len(login.sent) \/ ~login'.sent[i].whole]_vars

C13_Witness ==
    /\ login.pc = "done"
    /\ login.result = "Err"
    /\ Len(login.sent) = 2
    /\ login.sent[1].whole
    /\ login.sent[2].whole


\* the awaits of handle between taking the lock and dropping the guard
InHandle == {"send_login_success", "send_login_play", "send_spawn_position",
             "send_keep_alive", "update_world_state", "set_play", "return"}

PlayerComponents == {"Position", "Rotation", "KeepAlive", "Player"}

AllSent(l) == /\ Len(l.sent) = Len(LoginOrder)
              /\ \A i \in DOMAIN l.sent : l.sent[i] = Whole(LoginOrder[i])

\* C18: the state becomes Play only after the four packets were written and the
\* components inserted; a failed step returns the error and leaves the state as
\* it was; the handler holds the write lock from before the first send until
\* after the state change, and nobody else holds the lock in between.
C18_PlayOnlyAfterLogin ==
    /\ [](login.pc /= "none" =>
            /\ login.state = "Play" =>
                  /\ AllSent(login)
                  /\ {c.c : c \in login.world} = PlayerComponents
                  /\ [c |-> "Player", username |-> login.username] \in login.world
            /\ login.result = "Err" => login.state = "Login"
            /\ login.pc \in InHandle =>
                  /\ login.lock.writer = "handler"
                  /\ login.lock.readers = {})
    /\ [][(login'.sent /= login.sent \/ login'.state /= login.state) =>
             /\ login.lock = [writer |-> "handler", readers |-> {}]
             /\ login.pc \in InHandle]_vars

C18_Witness ==
    /\ login.pc = "done"
    /\ login.result = "Ok"
    /\ login.state = "Play"
    /\ login.peer = "left"
    /\ login.lock = FreeLock


\* bytes left after the cursor
Left(p) == Len(p.data) - p.pos

\* the first read of the next step asks for more bytes than are left
Short(p) ==
    CASE p.pc = "compound" ->
           IF Left(p) < 1 THEN TRUE
           ELSE p.data[p.pos + 1] /= 0 /\ Left(p) < 3
      [] p.pc = "payload" /\ p.tag \in 1..6 ->
           Left(p) < (CASE p.tag = 1 -> 1 [] p.tag = 2 -> 2
                        [] p.tag \in {3, 5} -> 4 [] OTHER -> 8)
      [] p.pc = "payload" /\ p.tag = 8 -> Left(p) < 2
      [] p.pc = "payload" /\ p.tag = 9 -> Left(p) < 5
      [] p.pc = "payload" /\ p.tag \in {7, 11, 12} -> Left(p) < 4
      [] OTHER -> FALSE

\* C14: a read that fails inside a List element or a Compound entry ends the
\* parse at that step with that error; the result holds no tree, nothing is
\* decoded afterwards, and a cut stream never yields a tree of the entries
\* that came before the cut.
C14_ErrorsAbortParse ==
    /\ [](parser.pc /= "none" =>
            /\ (Done /\ parser.out.k = "Err") =>
                  (DOMAIN parser.out = {"k", "err"} /\ parser.stack = <<>>)
            /\ (Done /\ input.kind = "prefix") => ~Succeeded)
    /\ [][(Depth >= 1 /\ Short(parser)) =>
             /\ parser'.pc = "done"
             /\ parser'.out = [k |-> "Err", err |-> UnexpectedEndOfData]
             /\ parser'.stack = <<>>
             /\ parser'.pos \in parser.pos..Len(parser.data)]_vars
    /\ [][parser.pc = "done" => parser' = parser]_vars

\* a stream cut inside its second entry, after a first entry was decoded
C14_Witness ==
    /\ Failed(UnexpectedEndOfData)
    /\ input.kind = "prefix"
    /\ Len(input.data) >= 10
    /\ SubSeq(input.data, 1, 8) = <<10, 0, 0, 1, 0, 1, 97, 5>>


\* C15: of two parsers stepped in any order over separate buffers, each ends
\* with the result it has when run alone, and a step of one leaves the buffer,
\* the position and the pending calls of the other as they were.
C15_ParsersIndependent ==
    /\ [](other.pc /= "none" =>
            /\ Done => parser = ParseOf(input.data, parser.addr)
            /\ other.pc = "done" => other = ParseOf(other.data, other.addr))
    /\ [][other.pc /= "none" => (parser' = parser \/ other' = other)]_vars
    /\ [][(other.pc /= "none" /\ parser' /= parser) => parser' = Step(parser)]_vars
    /\ [][(other.pc /= "none" /\ other' /= other) => other' = Step(other)]_vars

\* both parsers finished, on different buffers, with different outcomes, the
\* second one having ended while the first was still inside its Compound
C15_Witness ==
    /\ Done
    /\ other.pc = "done"
    /\ other.data /= parser.data
    /\ parser.out.k = "Ok"
    /\ other.out.k = "Err"


\* C16: during a parse the position is within 0..len of the buffer, is 0 when
\* the parse starts, and no step makes it smaller, whatever the buffer holds.
C16_CursorMonotone ==
    /\ [](parser.pc \notin {"none", "wait", "off"} =>
            /\ parser.pos \in 0..Len(parser.data)
            /\ parser.pc = "parse" => parser.pos = 0)
    /\ [][parser.pc \notin {"none", "wait", "off"} => parser'.pos >= parser.pos]_vars

\* a parse of a stream with a negative length that ended past the header
C16_Witness ==
    /\ Done
    /\ input.kind = "neglen"
    /\ parser.out.k /= "Ok"
    /\ parser.pos > 3


\* the stream is a root Compound with an empty name whose first entry is a
\* List named "a"
ListEntry(data) == Len(data) >= 12 /\ SubSeq(data, 1, 7) = <<10, 0, 0, 9, 0, 1, 97>>

DeclaredType(data) == data[8]

DeclaredCount(data) == SignedBE(SubSeq(data, 9, 12))

\* bytes of the header of a List payload: element type and count
ListHeader == 5

VariantOf(ty) ==
    CASE ty = 0 -> "End" [] ty = 1 -> "Byte" [] ty = 2 -> "Short" [] ty = 3 -> "Int"
      [] ty = 4 -> "Long" [] ty = 5 -> "Float" [] ty = 6 -> "Double"
      [] ty = 7 -> "ByteArray" [] ty = 8 -> "String" [] ty = 9 -> "List"
      [] ty = 10 -> "Compound" [] ty = 11 -> "IntArray" [] ty = 12 -> "LongArray"
      [] OTHER -> "none"

\* the List is the only entry and the stream ends right after it
OnlyList(data) == ListEntry(data) /\ DeclaredCount(data) >= 0

\* C17: a decoded List records the declared element type T, holds exactly the
\* declared N elements, all of the variant of T and in the order of the stream;
\* a List of count 0 decodes for any T and no element is decoded; with T = End
\* the elements take no bytes and the cursor ends 5 bytes after the start of
\* the payload.
C17_ListDecode ==
    (parser.pc \notin {"none", "wait", "off"} /\ OnlyList(parser.data)) =>
        LET T == DeclaredType(parser.data)
            N == DeclaredCount(parser.data) IN
        /\ (Succeeded /\ NameA \in DOMAIN parser.out.tag.tags
                      /\ input.kind \in {"valid", "emptylist"}) =>
              LET v == parser.out.tag.tags[NameA] IN
              /\ v.t = "List"
              /\ v.element_type = T
              /\ Len(v.elements) = N
              /\ \A i \in 1..N : v.elements[i].t = VariantOf(T)
              /\ T = 3 => \A i \in 1..N :
                    v.elements[i] = ScalarOf(3, SubSeq(parser.data, 9 + 4 * i, 12 + 4 * i))
              /\ T \in {0, 3, 9, 10} => v = input.root.tags[NameA]
        /\ (N = 0 /\ Len(parser.data) = 13 /\ parser.data[13] = 0) =>
              /\ Done => (Succeeded /\ parser.out.tag = TagCompound(NameA :> TagList(T, <<>>)))
              /\ parser.pc = "payload" => Top(parser).k /= "list"
        /\ T = 0 =>
              /\ (parser.pc = "list" \/ (parser.pc = "payload" /\ Top(parser).k = "list")) =>
                    parser.pos = 7 + ListHeader
              /\ (parser.pc = "compound" /\ NameA \in DOMAIN Top(parser).tags) =>
                    /\ parser.pos = 7 + ListHeader
                    /\ Top(parser).tags[NameA] = TagList(0, [i \in 1..N |-> TagEnd])
                    /\ Len(parser.stack) = 2

\* a List of two End elements was decoded: the cursor stands 5 bytes after the
\* start of its payload
C17_Witness ==
    /\ parser.pc = "compound"
    /\ OnlyList(parser.data)
    /\ DeclaredType(parser.data) = 0
    /\ DeclaredCount(parser.data) = 2
    /\ NameA \in DOMAIN Top(parser).tags
    /\ parser.pos = 12


\* every parse comes to an end, by a return or by a panic
ParseEnds == <>Done

\* C19: on every finite buffer parse comes to an end and returns a tree or an
\* error.
C19_ParseReturns == <>(Done /\ parser.out.k \in {"Ok", "Err"})


\* C20: when parse decodes the whole of a stream b, parse of b followed by any
\* bytes returns the same name and tree, never moves the cursor past the End
\* of the root Compound, and ends with the cursor at len(b).
C20_TrailingBytesUnread ==
    (/\ input.kind = "suffix"
     /\ LET whole == ParseOf(input.full, parser.addr) IN
        whole.out.k = "Ok" /\ whole.pos = Len(input.full)) =>
        /\ parser.pos <= Len(input.full)
        /\ Done => /\ Succeeded
                   /\ parser.out = ParseOf(input.full, parser.addr).out
                   /\ parser.pos = Len(input.full)

C20_Witness ==
    /\ Succeeded
    /\ input.kind = "suffix"
    /\ Len(input.data) = Len(input.full) + 2
    /\ Len(input.full) > 4
    /\ parser.pos = Len(input.full)

====
